---- MODULE Spec2Model ----
(***************************************************************************)
(* The library book inventory of week2.py: class Book, class Library with  *)
(* its primary mapping books_by_isbn and the two secondary indexes         *)
(* books_by_title / books_by_author, and the JSON data file.               *)
(*                                                                         *)
(* Strings are sequences of one-character strings ("Dune" is               *)
(* <<"D","u","n","e">>), so that str.lower() is computed character by      *)
(* character.  Python values and JSON values are tagged records            *)
(* [t |-> tag, v |-> payload].  Book objects live in a heap (lib.objs);    *)
(* the three dictionaries hold references (heap positions), as the Python  *)
(* dictionaries hold references to Book objects.                           *)
(***************************************************************************)
EXTENDS Integers, Sequences, FiniteSets, TLC

VARIABLES
    lib,     \* the Library instance: objs, books_by_isbn, books_by_title, books_by_author
    file,    \* the content of the data file (self.data_file)
    last,    \* the last call made on the Library and what it returned
    passed   \* the ISBNs passed to add_book since the Library was constructed

vars == <<lib, file, last, passed>>

-----------------------------------------------------------------------------
(* Bounds of the model *)

\* how many distinct user ids the callers use (the empty id is always used too)
NumUsers == 2
\* the longest data file found at start that was not written by save_data,
\* in entries
MaxFileLen == 2
\* load_data is called again only on a Library of fewer objects than this
MaxObjs == 3

-----------------------------------------------------------------------------
(* Strings *)

s111 == <<"1", "1", "1">>
s222 == <<"2", "2", "2">>
sDune == <<"D", "u", "n", "e">>
sDUNE == <<"D", "U", "N", "E">>
sdune == <<"d", "u", "n", "e">>
s1984 == <<"1", "9", "8", "4">>
sEmma == <<"E", "m", "m", "a">>
sHerbert == <<"H", "e", "r", "b", "e", "r", "t">>
sHERBERT == <<"H", "E", "R", "B", "E", "R", "T">>
sherbert == <<"h", "e", "r", "b", "e", "r", "t">>
sOrwell == <<"O", "r", "w", "e", "l", "l">>
sorwell == <<"o", "r", "w", "e", "l", "l">>
sAusten == <<"A", "u", "s", "t", "e", "n">>
salice == <<"a", "l", "i", "c", "e">>
sbob == <<"b", "o", "b">>
scarol == <<"c", "a", "r", "o", "l">>
sdave == <<"d", "a", "v", "e">>
sEmpty == << >>

UpperCase == <<"A", "B", "C", "D", "E", "F", "G", "H", "I", "J", "K", "L", "M",
               "N", "O", "P", "Q", "R", "S", "T", "U", "V", "W", "X", "Y", "Z">>
LowerCase == <<"a", "b", "c", "d", "e", "f", "g", "h", "i", "j", "k", "l", "m",
               "n", "o", "p", "q", "r", "s", "t", "u", "v", "w", "x", "y", "z">>

LowerTable ==
    [c \in {UpperCase[i] : i \in 1..Len(UpperCase)} |->
        LowerCase[CHOOSE i \in 1..Len(UpperCase) : UpperCase[i] = c]]

LowerChar(c) == IF c \in DOMAIN LowerTable THEN LowerTable[c] ELSE c

RECURSIVE LowerSeq(_)
LowerSeq(s) ==
    IF s = << >> THEN << >> ELSE <<LowerChar(Head(s))>> \o LowerSeq(Tail(s))

-----------------------------------------------------------------------------
(* Python values *)

None == [t |-> "None", v |-> << >>]
PyStr(s) == [t |-> "str", v |-> s]
PyInt(s) == [t |-> "int", v |-> s]
PyList == [t |-> "list", v |-> << >>]
\* a dict with string keys: v is the function from its keys to their values
PyDict(members) == [t |-> "dict", v |-> members]

\* str.lower(); only called on a str
lower(x) == PyStr(LowerSeq(x.v))
\* whether x.lower() exists: every other type raises AttributeError
HasLower(x) == x.t = "str"
\* whether x can be a dict key: a list raises TypeError
Hashable(x) == x.t # "list"

-----------------------------------------------------------------------------
(* JSON values, as json.dump writes them and json.load reads them *)

JNull == [t |-> "null", v |-> << >>]
JString(s) == [t |-> "string", v |-> s]
JNumber(s) == [t |-> "number", v |-> s]
JArray(items) == [t |-> "array", v |-> items]
JObject(members) == [t |-> "object", v |-> members]

\* json.dump of a Python value that is no dict
json_encode_member(x) ==
    CASE x.t = "None" -> JNull
      [] x.t = "str" -> JString(x.v)
      [] x.t = "int" -> JNumber(x.v)
      [] x.t = "list" -> JArray(<< >>)

\* json.dump of an item of the list save_data builds
json_encode(x) ==
    IF x.t = "dict"
    THEN JObject([k \in DOMAIN x.v |-> json_encode_member(x.v[k])])
    ELSE json_encode_member(x)

\* json.load of a JSON value that is no object
json_decode_member(j) ==
    CASE j.t = "null" -> None
      [] j.t = "string" -> PyStr(j.v)
      [] j.t = "number" -> PyInt(j.v)
      [] j.t = "array" -> PyList

\* json.load of an item of the array in the file
json_decode(j) ==
    IF j.t = "object"
    THEN PyDict([k \in DOMAIN j.v |-> json_decode_member(j.v[k])])
    ELSE json_decode_member(j)

\* the data file: absent, not JSON, or a JSON document
Absent == [kind |-> "absent", doc |-> JNull]
Garbage == [kind |-> "garbage", doc |-> JNull]
JsonFile(doc) == [kind |-> "json", doc |-> doc]

-----------------------------------------------------------------------------
(* class Book *)

Book(isbn, title, author) ==
    [isbn |-> isbn, title |-> title, author |-> author, issued_to |-> None]

\* issue_to without the test of line 13
issue_to_overwrites(self, user_id) ==
    [self |-> [self EXCEPT !.issued_to = user_id], ret |-> TRUE]

\* Book.issue_to: the object afterwards and the value returned
issue_to(self, user_id) ==
    IF self.issued_to = None
    THEN [self |-> [self EXCEPT !.issued_to = user_id], ret |-> TRUE]
    ELSE [self |-> self, ret |-> FALSE]

\* return_book that reports success and forgets line 20
return_book_keeps_holder(self) ==
    IF self.issued_to # None
    THEN [self |-> self, ret |-> TRUE]
    ELSE [self |-> self, ret |-> FALSE]

\* Book.return_book
Book_return_book(self) ==
    IF self.issued_to # None
    THEN [self |-> [self EXCEPT !.issued_to = None], ret |-> TRUE]
    ELSE [self |-> self, ret |-> FALSE]

\* is_issued by truthiness: bool(self.issued_to)
is_issued_truthy(self) ==
    self.issued_to # None /\ self.issued_to # PyStr(<< >>)

\* Book.is_issued
is_issued(self) == self.issued_to # None

\* to_dict that forgets line 32
to_dict_drops_holder(self) ==
    PyDict([isbn |-> self.isbn,
            title |-> self.title,
            author |-> self.author,
            issued_to |-> None])

\* Book.to_dict
to_dict(self) ==
    PyDict([isbn |-> self.isbn,
            title |-> self.title,
            author |-> self.author,
            issued_to |-> self.issued_to])

\* Book.from_dict raises for d: d is no dict (TypeError) or lacks a key (KeyError)
from_dict_raises(d) ==
    \/ d.t # "dict"
    \/ ~({"isbn", "title", "author"} \subseteq DOMAIN d.v)

\* Book.from_dict: the Book made of dict d
from_dict(d) ==
    [isbn |-> d.v["isbn"],
     title |-> d.v["title"],
     author |-> d.v["author"],
     issued_to |-> IF "issued_to" \in DOMAIN d.v
                   THEN d.v["issued_to"]
                   ELSE None]

-----------------------------------------------------------------------------
(* Python dictionaries *)

\* books_by_isbn keeps insertion order: a sequence of [k, v] items
Keys(d) == {d[i].k : i \in 1..Len(d)}
DictGet(d, k) == d[CHOOSE i \in 1..Len(d) : d[i].k = k].v
DictSet(d, k, v) ==
    IF k \in Keys(d)
    THEN [i \in 1..Len(d) |-> IF d[i].k = k THEN [k |-> k, v |-> v] ELSE d[i]]
    ELSE Append(d, [k |-> k, v |-> v])
Values(d) == [i \in 1..Len(d) |-> d[i].v]

\* an index: a function from keys to lists of references
EmptyIndex == [k \in {} |-> << >>]
\* index.setdefault(key, []).append(ref)
IndexAppend(index, key, ref) ==
    IF key \in DOMAIN index
    THEN [index EXCEPT ![key] = Append(@, ref)]
    ELSE [k \in DOMAIN index \cup {key} |->
            IF k = key THEN <<ref>> ELSE index[k]]
\* index.get(key, [])
IndexGet(index, key) ==
    IF key \in DOMAIN index THEN index[key] ELSE << >>

-----------------------------------------------------------------------------
(* class Library *)

EmptyLibrary ==
    [objs |-> << >>,
     books_by_isbn |-> << >>,
     books_by_title |-> EmptyIndex,
     books_by_author |-> EmptyIndex]

\* add_book with the test of line 50 inverted
add_book_inverted(self, isbn, title, author) ==
    IF isbn \notin Keys(self.books_by_isbn)
    THEN [self |-> self, ret |-> FALSE]
    ELSE LET ref == Len(self.objs) + 1 IN
         [self |-> [objs |-> Append(self.objs, Book(isbn, title, author)),
                    books_by_isbn |-> DictSet(self.books_by_isbn, isbn, ref),
                    books_by_title |->
                        IndexAppend(self.books_by_title, lower(title), ref),
                    books_by_author |->
                        IndexAppend(self.books_by_author, lower(author), ref)],
          ret |-> TRUE]

\* add_book that forgets line 56
add_book_skips_author(self, isbn, title, author) ==
    IF isbn \in Keys(self.books_by_isbn)
    THEN [self |-> self, ret |-> FALSE]
    ELSE LET ref == Len(self.objs) + 1 IN
         [self |-> [objs |-> Append(self.objs, Book(isbn, title, author)),
                    books_by_isbn |-> DictSet(self.books_by_isbn, isbn, ref),
                    books_by_title |->
                        IndexAppend(self.books_by_title, lower(title), ref),
                    books_by_author |-> self.books_by_author],
          ret |-> TRUE]

\* add_book that creates the title key (line 55's setdefault) before the test
\* of line 50
add_book_key_first(self, isbn, title, author) ==
    LET keyed == IF lower(title) \in DOMAIN self.books_by_title
                 THEN self.books_by_title
                 ELSE [k \in DOMAIN self.books_by_title \cup {lower(title)} |->
                         IF k = lower(title) THEN << >>
                         ELSE self.books_by_title[k]]
        ref == Len(self.objs) + 1
    IN  IF isbn \in Keys(self.books_by_isbn)
        THEN [self |-> [self EXCEPT !.books_by_title = keyed], ret |-> FALSE]
        ELSE [self |-> [objs |-> Append(self.objs, Book(isbn, title, author)),
                        books_by_isbn |-> DictSet(self.books_by_isbn, isbn, ref),
                        books_by_title |-> IndexAppend(keyed, lower(title), ref),
                        books_by_author |->
                            IndexAppend(self.books_by_author, lower(author), ref)],
              ret |-> TRUE]

\* add_book without the test of lines 50-52
add_book_overwrites(self, isbn, title, author) ==
    LET ref == Len(self.objs) + 1 IN
    [self |-> [objs |-> Append(self.objs, Book(isbn, title, author)),
               books_by_isbn |-> DictSet(self.books_by_isbn, isbn, ref),
               books_by_title |->
                   IndexAppend(self.books_by_title, lower(title), ref),
               books_by_author |->
                   IndexAppend(self.books_by_author, lower(author), ref)],
     ret |-> TRUE]

\* Library.add_book: the Library afterwards and the value returned
add_book(self, isbn, title, author) ==
    IF isbn \in Keys(self.books_by_isbn)
    THEN [self |-> self, ret |-> FALSE]
    ELSE LET ref == Len(self.objs) + 1 IN
         [self |-> [objs |-> Append(self.objs, Book(isbn, title, author)),
                    books_by_isbn |-> DictSet(self.books_by_isbn, isbn, ref),
                    books_by_title |->
                        IndexAppend(self.books_by_title, lower(title), ref),
                    books_by_author |->
                        IndexAppend(self.books_by_author, lower(author), ref)],
          ret |-> TRUE]

\* a search by the title as typed, not lowercased
search_by_title_exact(self, title) ==
    [self |-> self, ret |-> IndexGet(self.books_by_title, title)]

\* Library.search_by_title: the Library afterwards and the list returned
\* (references to Book objects)
search_by_title(self, title) ==
    [self |-> self, ret |-> IndexGet(self.books_by_title, lower(title))]

\* Library.search_by_author
search_by_author(self, author) ==
    [self |-> self, ret |-> IndexGet(self.books_by_author, lower(author))]

\* Library.issue_book
issue_book(self, isbn, user_id) ==
    IF isbn \notin Keys(self.books_by_isbn)
    THEN [self |-> self, ret |-> FALSE]
    ELSE LET ref == DictGet(self.books_by_isbn, isbn)
             r == issue_to(self.objs[ref], user_id)
         IN  [self |-> [self EXCEPT !.objs[ref] = r.self], ret |-> r.ret]

\* return_book that reports success for an unknown ISBN
return_book_unknown_ok(self, isbn) ==
    IF isbn \notin Keys(self.books_by_isbn)
    THEN [self |-> self, ret |-> TRUE]
    ELSE LET ref == DictGet(self.books_by_isbn, isbn)
             r == Book_return_book(self.objs[ref])
         IN  [self |-> [self EXCEPT !.objs[ref] = r.self], ret |-> r.ret]

\* Library.return_book
return_book(self, isbn) ==
    IF isbn \notin Keys(self.books_by_isbn)
    THEN [self |-> self, ret |-> FALSE]
    ELSE LET ref == DictGet(self.books_by_isbn, isbn)
             r == Book_return_book(self.objs[ref])
         IN  [self |-> [self EXCEPT !.objs[ref] = r.self], ret |-> r.ret]

\* Library.total_books
total_books(self) == Len(self.books_by_isbn)

\* Library.issued_count: sum(1 for b in values() if b.is_issued())
RECURSIVE CountIssued(_, _)
CountIssued(objs, refs) ==
    IF refs = << >> THEN 0
    ELSE (IF is_issued(objs[Head(refs)]) THEN 1 ELSE 0)
         + CountIssued(objs, Tail(refs))
issued_count(self) == CountIssued(self.objs, Values(self.books_by_isbn))

\* Library.report: the three numbers printed
report(self) ==
    <<total_books(self), issued_count(self),
      total_books(self) - issued_count(self)>>

\* save_data that hands the books back as it writes them: every holder cleared
save_data_returns_books(self) ==
    LET refs == Values(self.books_by_isbn)
        data == [i \in 1..Len(refs) |-> to_dict(self.objs[refs[i]])]
    IN  [self |-> [self EXCEPT !.objs =
                      [i \in 1..Len(self.objs) |->
                          [self.objs[i] EXCEPT !.issued_to = None]]],
         file |-> JsonFile(JArray([i \in 1..Len(data) |-> json_encode(data[i])]))]

\* save_data that writes the books last inserted first
save_data_last_first(self) ==
    LET refs == Values(self.books_by_isbn)
        n == Len(refs)
        data == [i \in 1..n |-> to_dict(self.objs[refs[n + 1 - i]])]
    IN  [self |-> self,
         file |-> JsonFile(JArray([i \in 1..n |-> json_encode(data[i])]))]

\* Library.save_data: the Library afterwards and the file json.dump writes
save_data(self) ==
    LET refs == Values(self.books_by_isbn)
        data == [i \in 1..Len(refs) |-> to_dict(self.objs[refs[i]])]
    IN  [self |-> self,
         file |-> JsonFile(JArray([i \in 1..Len(data) |-> json_encode(data[i])]))]

\* one pass of the loop of Library.load_data over entry d:
\* the Library afterwards and whether an exception was raised
load_entry(self, d) ==
    IF from_dict_raises(d) THEN [self |-> self, raised |-> TRUE]
    ELSE
    LET book == from_dict(d)
        ref == Len(self.objs) + 1
        s1 == [self EXCEPT !.objs = Append(@, book),
                           !.books_by_isbn = DictSet(@, book.isbn, ref)]
        s2 == [s1 EXCEPT !.books_by_title = IndexAppend(@, lower(book.title), ref)]
        s3 == [s2 EXCEPT !.books_by_author = IndexAppend(@, lower(book.author), ref)]
    IN  IF ~Hashable(book.isbn) THEN [self |-> self, raised |-> TRUE]
        ELSE IF ~HasLower(book.title) THEN [self |-> s1, raised |-> TRUE]
        ELSE IF ~HasLower(book.author) THEN [self |-> s2, raised |-> TRUE]
        ELSE [self |-> s3, raised |-> FALSE]

\* the loop of Library.load_data: it ends at the first exception
RECURSIVE load_entries(_, _)
load_entries(self, data) ==
    IF data = << >> THEN self
    ELSE LET r == load_entry(self, Head(data)) IN
         IF r.raised THEN r.self ELSE load_entries(r.self, Tail(data))

\* Library.load_data. A file that is not JSON makes json.load raise; a JSON
\* document that is no array makes the for statement or the first from_dict
\* raise (or the loop run over nothing): each is caught with nothing loaded.
load_data(self, f) ==
    IF f.kind = "absent" THEN self
    ELSE IF f.kind = "garbage" THEN self
    ELSE IF f.doc.t # "array" THEN self
    ELSE load_entries(self,
                      [i \in 1..Len(f.doc.v) |-> json_decode(f.doc.v[i])])

\* Library.__init__
Library(f) == load_data(EmptyLibrary, f)

-----------------------------------------------------------------------------
(* The callers' inputs *)

UserNames == <<salice, sbob, scarol, sdave>>

ISBNS == {PyStr(s111), PyStr(s222)}
\* the <<title, author>> pairs that are added
BOOKS == {<<PyStr(sDune), PyStr(sHerbert)>>, <<PyStr(sDUNE), PyStr(sHERBERT)>>,
          <<PyStr(s1984), PyStr(sOrwell)>>}
USERS == {PyStr(UserNames[i]) : i \in 1..NumUsers} \cup {PyStr(sEmpty)}
\* what is searched for: what was added, other spellings of it, and misses
SEARCH_TITLES == {PyStr(sDUNE), PyStr(sdune), PyStr(sEmma)}
SEARCH_AUTHORS == {PyStr(sherbert), PyStr(sOrwell), PyStr(sAusten)}

-----------------------------------------------------------------------------
(* The calls *)

\* a call that returned: ok is the bool returned (TRUE where none is), found the
\* list a search returned, shown the numbers report printed
Call(op, ok, found, shown) ==
    [op |-> op, raised |-> FALSE, ok |-> ok, found |-> found, shown |-> shown]
\* a call that raised to its caller
Raised(op) ==
    [op |-> op, raised |-> TRUE, ok |-> FALSE, found |-> << >>, shown |-> << >>]

\* lib = Library() where no data file exists
Init ==
    /\ file = Absent
    /\ lib = Library(Absent)
    /\ last = Call("init", TRUE, << >>, << >>)
    /\ passed = {}

AddBook(isbn, title, author) ==
    LET r == add_book(lib, isbn, title, author) IN
    /\ lib' = r.self
    /\ last' = Call("add_book", r.ret, << >>, << >>)
    /\ passed' = passed \cup {isbn}
    /\ UNCHANGED file

SearchByTitle(title) ==
    LET r == search_by_title(lib, title) IN
    /\ lib' = r.self
    /\ last' = Call("search_by_title", TRUE, r.ret, << >>)
    /\ UNCHANGED <<file, passed>>

SearchByAuthor(author) ==
    LET r == search_by_author(lib, author) IN
    /\ lib' = r.self
    /\ last' = Call("search_by_author", TRUE, r.ret, << >>)
    /\ UNCHANGED <<file, passed>>

IssueBook(isbn, user_id) ==
    LET r == issue_book(lib, isbn, user_id) IN
    /\ lib' = r.self
    /\ last' = Call("issue_book", r.ret, << >>, << >>)
    /\ UNCHANGED <<file, passed>>

ReturnBook(isbn) ==
    LET r == return_book(lib, isbn) IN
    /\ lib' = r.self
    /\ last' = Call("return_book", r.ret, << >>, << >>)
    /\ UNCHANGED <<file, passed>>

Report ==
    /\ last' = Call("report", TRUE, << >>, report(lib))
    /\ UNCHANGED <<lib, file, passed>>

\* save_data returns: the file holds the document
SaveData ==
    LET r == save_data(lib) IN
    /\ lib' = r.self
    /\ file' = r.file
    /\ last' = Call("save_data", TRUE, << >>, << >>)
    /\ UNCHANGED passed

\* save_data raises: open() failed (the file is as before), or the write
\* failed after open(..., "w") truncated the file
SaveDataRaises ==
    /\ lib' = save_data(lib).self
    /\ file' \in {file, Garbage}
    /\ last' = Raised("save_data")
    /\ UNCHANGED passed

\* a new process: lib = Library() over the data file as it is
Construct ==
    /\ lib' = Library(file)
    /\ last' = Call("init", TRUE, << >>, << >>)
    /\ passed' = {}
    /\ UNCHANGED file

Next ==
    \/ \E isbn \in ISBNS, b \in BOOKS : AddBook(isbn, b[1], b[2])
    \/ \E title \in SEARCH_TITLES : SearchByTitle(title)
    \/ \E author \in SEARCH_AUTHORS : SearchByAuthor(author)
    \/ \E isbn \in ISBNS, user_id \in USERS : IssueBook(isbn, user_id)
    \/ \E isbn \in ISBNS : ReturnBook(isbn)
    \/ Report
    \/ SaveData
    \/ SaveDataRaises

\* one Library from construction on, no data file at the start
Spec == Init /\ [][Next]_vars

NextRestart ==
    \/ \E isbn \in ISBNS, b \in BOOKS : AddBook(isbn, b[1], b[2])
    \/ \E isbn \in ISBNS, user_id \in USERS : IssueBook(isbn, user_id)
    \/ \E isbn \in ISBNS : ReturnBook(isbn)
    \/ SaveData
    \/ Construct

\* the program run again and again over the data file it saves
SpecRestart == Init /\ [][NextRestart]_vars

-----------------------------------------------------------------------------
(* A data file that save_data did not write *)

\* the "issued_to" members found in entries
ENTRY_HOLDERS == {JNull, JString(salice), JString(sEmpty), JNumber(<<"7">>)}

\* entries load_data takes as they are
GoodEntries ==
    {JObject([isbn |-> JString(i), title |-> b[1], author |-> b[2]]) :
        i \in {s111, s222},
        b \in {<<JString(sDune), JString(sHerbert)>>,
               <<JString(sDUNE), JString(sHERBERT)>>}}
    \cup
    {JObject([isbn |-> JString(i), title |-> b[1], author |-> b[2],
              issued_to |-> h]) :
        i \in {s111, s222},
        b \in {<<JString(sDune), JString(sHerbert)>>,
               <<JString(sDUNE), JString(sHERBERT)>>},
        h \in ENTRY_HOLDERS}

\* entries at which load_data raises
NotAnObject == JNumber(<<"7">>)
NoIsbn == JObject([title |-> JString(sDune), author |-> JString(sHerbert)])
NoTitle == JObject([isbn |-> JString(s222), author |-> JString(sHerbert)])
NoAuthor == JObject([isbn |-> JString(s222), title |-> JString(sDune)])
TitleNotStr ==
    JObject([isbn |-> JString(s222), title |-> JNumber(<<"7">>),
             author |-> JString(sHerbert)])
AuthorNotStr ==
    JObject([isbn |-> JString(s222), title |-> JString(sDune),
             author |-> JNull])
IsbnUnhashable ==
    JObject([isbn |-> JArray(<< >>), title |-> JString(sDune),
             author |-> JString(sHerbert)])
BadEntries ==
    {NotAnObject, NoIsbn, NoTitle, NoAuthor, TitleNotStr, AuthorNotStr,
     IsbnUnhashable}

ENTRIES == GoodEntries \cup BadEntries

\* the JSON arrays of at most MaxFileLen entries
ARRAYS == UNION {[1..n -> ENTRIES] : n \in 0..MaxFileLen}

\* the data files: none, not JSON, JSON that is no array, an array of entries
FILES ==
    {Absent, Garbage, JsonFile(JNumber(<<"7">>))}
    \cup {JsonFile(JArray(a)) : a \in ARRAYS}

\* lib = Library() over whatever data file is there
InitRestore ==
    /\ file \in FILES
    /\ lib = Library(file)
    /\ last = Call("init", TRUE, << >>, << >>)
    /\ passed = {}

\* lib.load_data() called on the Library as it is
LoadData ==
    /\ Len(lib.objs) < MaxObjs
    /\ lib' = load_data(lib, file)
    /\ last' = Call("load_data", TRUE, << >>, << >>)
    /\ UNCHANGED <<file, passed>>

NextRestore ==
    \/ Construct
    \/ LoadData

\* a Library constructed over any data file, and loaded again
SpecRestore == InitRestore /\ [][NextRestore]_vars

\* the one user of a Library that is loaded again
RELOAD_USERS == {PyStr(UserNames[1])}

NextReload ==
    \/ \E isbn \in ISBNS, b \in BOOKS : AddBook(isbn, b[1], b[2])
    \/ \E title \in SEARCH_TITLES : SearchByTitle(title)
    \/ \E author \in SEARCH_AUTHORS : SearchByAuthor(author)
    \/ \E isbn \in ISBNS, user_id \in RELOAD_USERS : IssueBook(isbn, user_id)
    \/ \E isbn \in ISBNS : ReturnBook(isbn)
    \/ SaveData
    \/ LoadData

\* one Library that is added to, searched, saved, and loaded again from the
\* file it saved
SpecReload == Init /\ [][NextReload]_vars

-----------------------------------------------------------------------------
(* Views of the state that the properties speak of *)

Range(seq) == {seq[i] : i \in 1..Len(seq)}
\* the Book objects the primary mapping holds, as references
PrimaryRefs(l) == Range(Values(l.books_by_isbn))
\* the Book objects reachable from an index
IndexRefs(index) == UNION {Range(index[k]) : k \in DOMAIN index}
\* the places <<key, position>> of an index
Places(index) == UNION {{<<k, j>> : j \in 1..Len(index[k])} : k \in DOMAIN index}
\* how often an index holds a reference
Occurrences(index, ref) ==
    Cardinality({p \in Places(index) : index[p[1]][p[2]] = ref})
\* the record stored under an id
RecordOf(l, isbn) == l.objs[DictGet(l.books_by_isbn, isbn)]
Holder(l, isbn) == RecordOf(l, isbn).issued_to
Ids(l) == Keys(l.books_by_isbn)
\* the ids whose record has a holder
HeldIds(l) == {isbn \in Ids(l) : Holder(l, isbn) # None}
\* the records a list of references stands for
Records(l, refs) == [i \in 1..Len(refs) |-> l.objs[refs[i]]]

-----------------------------------------------------------------------------
(* C1 *)

\* C1: index consistency. In every state reached from a freshly constructed
\* store by add, checkout, release, search and persist calls, the title index,
\* the author index and the primary mapping reach the same set of records, and
\* each record is exactly once in the title index, under lower(title), and
\* exactly once in the author index, under lower(author).
C1_IndexConsistency ==
    LET P == PrimaryRefs(lib) IN
    /\ IndexRefs(lib.books_by_title) = P
    /\ IndexRefs(lib.books_by_author) = P
    /\ \A r \in P :
          /\ Occurrences(lib.books_by_title, r) = 1
          /\ r \in Range(IndexGet(lib.books_by_title, lower(lib.objs[r].title)))
          /\ Occurrences(lib.books_by_author, r) = 1
          /\ r \in Range(IndexGet(lib.books_by_author, lower(lib.objs[r].author)))

\* two records under one title key, a checkout done, a persist that failed
C1_Witness ==
    /\ total_books(lib) = 2
    /\ \E k \in DOMAIN lib.books_by_title : Len(lib.books_by_title[k]) = 2
    /\ HeldIds(lib) # {}
    /\ last.op = "save_data" /\ last.raised

-----------------------------------------------------------------------------
(* C2 *)

\* C2: exclusive checkout. For an id in the store, issue_book(id, h) returns
\* true and sets the holder to h iff the record has no holder; on a held record
\* it returns false for every h and the holder stays.  No step takes a record's
\* holder from one present value to another.
C2_ExclusiveCheckout ==
    [][/\ last'.op = "issue_book" =>
             \A isbn \in Ids(lib), h \in USERS :
                 IssueBook(isbn, h) =>
                     IF Holder(lib, isbn) = None
                     THEN last'.ok /\ Holder(lib', isbn) = h
                     ELSE ~last'.ok /\ Holder(lib', isbn) = Holder(lib, isbn)
       /\ lib' # lib =>
             \A isbn \in Ids(lib) \cap Ids(lib') :
                 (Holder(lib, isbn) # None /\ Holder(lib', isbn) # None) =>
                     Holder(lib', isbn) = Holder(lib, isbn)]_vars

\* a checkout refused: every id is in the store and held
C2_Witness ==
    /\ Ids(lib) = ISBNS
    /\ HeldIds(lib) = ISBNS
    /\ last.op = "issue_book" /\ ~last.ok

-----------------------------------------------------------------------------
(* C4 *)

\* C4: a duplicate add is a no-op. add_book with an id that is in the primary
\* mapping returns false, whatever the title and author, and leaves the
\* primary mapping, both indexes (their keys too) and every record unchanged.
C4_DuplicateAddNoOp ==
    [][last'.op = "add_book" =>
          \A isbn \in Ids(lib), b \in BOOKS :
              AddBook(isbn, b[1], b[2]) =>
                  /\ ~last'.ok /\ ~last'.raised
                  /\ lib'.books_by_isbn = lib.books_by_isbn
                  /\ lib'.books_by_title = lib.books_by_title
                  /\ lib'.books_by_author = lib.books_by_author
                  /\ lib'.objs = lib.objs]_vars

\* an add refused while the store holds one record: of the three
\* <<title, author>> pairs tried, two differ from the stored one
C4_Witness ==
    /\ total_books(lib) = 1
    /\ last.op = "add_book" /\ ~last.ok

-----------------------------------------------------------------------------
(* C5 *)

\* C5: the count tracks the distinct ids. From an empty store, total_books()
\* is the number of distinct ids passed to add_book so far; add_book with a
\* fresh id returns true and raises total_books() by one, add_book with a
\* repeated id returns false and leaves it.
C5_CountTracksIds ==
    /\ [](total_books(lib) = Cardinality(passed))
    /\ [][last'.op = "add_book" =>
             \A isbn \in ISBNS, b \in BOOKS :
                 AddBook(isbn, b[1], b[2]) =>
                     IF isbn \notin passed
                     THEN last'.ok /\ total_books(lib') = total_books(lib) + 1
                     ELSE ~last'.ok /\ total_books(lib') = total_books(lib)]_vars

\* both ids added, then an id repeated
C5_Witness ==
    /\ Cardinality(passed) = 2
    /\ total_books(lib) = 2
    /\ last.op = "add_book" /\ ~last.ok

-----------------------------------------------------------------------------
(* C6 *)

\* the records of the primary mapping whose lowercased title (author) is that of
\* the query, in the order of insertion
MatchingTitle(l, title) ==
    LET Match(r) == lower(l.objs[r].title) = lower(title)
    IN  SelectSeq(Values(l.books_by_isbn), Match)
MatchingAuthor(l, author) ==
    LET Match(r) == lower(l.objs[r].author) = lower(author)
    IN  SelectSeq(Values(l.books_by_isbn), Match)

\* C6: case-insensitive exact search in insertion order. search_by_title(t)
\* returns the records whose lowercased title is lower(t), in the order they
\* were added, the empty list if there is none; search_by_author likewise; a
\* search changes nothing in the store.  A record added as "Dune" is found as
\* "dune" and as "DUNE", with the same list.
C6_Search ==
    /\ [][/\ last'.op = "search_by_title" =>
                \A t \in SEARCH_TITLES :
                    SearchByTitle(t) =>
                        last'.found = MatchingTitle(lib, t) /\ lib' = lib
          /\ last'.op = "search_by_author" =>
                \A a \in SEARCH_AUTHORS :
                    SearchByAuthor(a) =>
                        last'.found = MatchingAuthor(lib, a) /\ lib' = lib]_vars
    /\ [](/\ search_by_title(lib, PyStr(sdune)).ret
                = search_by_title(lib, PyStr(sDUNE)).ret
          /\ \A r \in PrimaryRefs(lib) :
                lib.objs[r].title = PyStr(sDune) =>
                    r \in Range(search_by_title(lib, PyStr(sdune)).ret))

\* a search that returned two records
C6_Witness ==
    /\ last.op = "search_by_title"
    /\ Len(last.found) = 2
    /\ lib.objs[last.found[1]].title # lib.objs[last.found[2]].title

-----------------------------------------------------------------------------
(* C7 *)

\* C7: the release transition. For an id in the store, return_book(id) returns
\* true and clears the holder iff the record is held; on a record that is not
\* held it returns false and changes nothing.
C7_Release ==
    [][last'.op = "return_book" =>
          \A isbn \in Ids(lib) :
              ReturnBook(isbn) =>
                  IF Holder(lib, isbn) # None
                  THEN /\ last'.ok
                       /\ Ids(lib') = Ids(lib)
                       /\ Holder(lib', isbn) = None
                       /\ \A other \in Ids(lib) \ {isbn} :
                             Holder(lib', other) = Holder(lib, other)
                  ELSE ~last'.ok /\ lib' = lib]_vars

\* a release that succeeded and left every record of a full store free
C7_Witness ==
    /\ Ids(lib) = ISBNS
    /\ HeldIds(lib) = {}
    /\ last.op = "return_book" /\ last.ok

-----------------------------------------------------------------------------
(* C8 *)

\* C8: not-found is a no-op. issue_book and return_book with an id that is not
\* in the primary mapping return false, raise nothing and leave the store
\* (mapping, indexes, holders, counts) as it was; no record is created.
C8_NotFoundNoOp ==
    [][/\ last'.op = "issue_book" =>
             \A isbn \in ISBNS \ Ids(lib), h \in USERS :
                 IssueBook(isbn, h) =>
                     /\ ~last'.ok /\ ~last'.raised
                     /\ lib' = lib
                     /\ total_books(lib') = total_books(lib)
                     /\ issued_count(lib') = issued_count(lib)
       /\ last'.op = "return_book" =>
             \A isbn \in ISBNS \ Ids(lib) :
                 ReturnBook(isbn) =>
                     /\ ~last'.ok /\ ~last'.raised
                     /\ lib' = lib
                     /\ total_books(lib') = total_books(lib)
                     /\ issued_count(lib') = issued_count(lib)]_vars

\* a checkout refused while no record of the store is held: the id is unknown
C8_Witness ==
    /\ total_books(lib) = 1
    /\ HeldIds(lib) = {}
    /\ last.op = "issue_book" /\ ~last.ok

-----------------------------------------------------------------------------
(* C9 *)

\* C9: count accounting. issued_count() is the number of records of the primary
\* mapping with a holder, 0 <= issued_count() <= total_books(), and report shows
\* total - issued as available.  A successful checkout raises issued_count() by
\* one, a successful release lowers it by one, a successful add leaves it, a
\* failed call leaves both counts, and checkout and release leave total_books().
C9_CountAccounting ==
    /\ [](/\ issued_count(lib) = Cardinality(HeldIds(lib))
          /\ 0 <= issued_count(lib)
          /\ issued_count(lib) <= total_books(lib)
          /\ last.op = "report" =>
                /\ last.shown[1] = total_books(lib)
                /\ last.shown[2] = issued_count(lib)
                /\ last.shown[3] = last.shown[1] - last.shown[2])
    /\ [][/\ last'.op = "issue_book" =>
                /\ total_books(lib') = total_books(lib)
                /\ issued_count(lib') =
                      issued_count(lib) + (IF last'.ok THEN 1 ELSE 0)
          /\ last'.op = "return_book" =>
                /\ total_books(lib') = total_books(lib)
                /\ issued_count(lib') =
                      issued_count(lib) - (IF last'.ok THEN 1 ELSE 0)
          /\ last'.op = "add_book" =>
                /\ issued_count(lib') = issued_count(lib)
                /\ ~last'.ok => total_books(lib') = total_books(lib)
          /\ last'.op \in {"search_by_title", "search_by_author", "report",
                           "save_data"} =>
                /\ total_books(lib') = total_books(lib)
                /\ issued_count(lib') = issued_count(lib)]_vars

\* the scenario of the specification: two records, one checked out, reported
C9_Witness ==
    /\ last.op = "report"
    /\ last.shown = <<2, 1, 1>>

-----------------------------------------------------------------------------
(* C3 *)

\* what the round trip keeps: the counts, and for every title and author of
\* store a the same list of records (id, title, author, holder) in store b
SameContent(a, b) ==
    /\ total_books(b) = total_books(a)
    /\ issued_count(b) = issued_count(a)
    /\ \A r \in PrimaryRefs(a) :
          /\ Records(b, search_by_title(b, a.objs[r].title).ret)
                = Records(a, search_by_title(a, a.objs[r].title).ret)
          /\ Records(b, search_by_author(b, a.objs[r].author).ret)
                = Records(a, search_by_author(a, a.objs[r].author).ret)

\* C3: persist/restore round trip. When save_data has succeeded and a fresh
\* Library is then constructed over the same file, the new store has the same
\* total_books(), the same issued_count() and, for every title and author of
\* the old store, the same search result: the same records in the same order.
C3_RoundTrip ==
    [][(last.op = "save_data" /\ ~last.raised /\ last'.op = "init") =>
           SameContent(lib, lib')]_vars

\* a store constructed from a saved file: two records under one title key,
\* one of them held
C3_Witness ==
    /\ last.op = "init"
    /\ total_books(lib) = 2
    /\ Cardinality(HeldIds(lib)) = 1
    /\ \E k \in DOMAIN lib.books_by_title : Len(lib.books_by_title[k]) = 2

-----------------------------------------------------------------------------
(* C10 *)

\* an entry load_data takes: an object whose id, title and author are strings
WellFormed(e) ==
    /\ e.t = "object"
    /\ {"isbn", "title", "author"} \subseteq DOMAIN e.v
    /\ e.v["isbn"].t = "string"
    /\ e.v["title"].t = "string"
    /\ e.v["author"].t = "string"
\* a faulty entry: no object, a missing id, title or author, or a title or
\* author that is no string
Faulty(e) ==
    \/ e.t # "object"
    \/ ~({"isbn", "title", "author"} \subseteq DOMAIN e.v)
    \/ e.v["title"].t # "string"
    \/ e.v["author"].t # "string"
HasId(e) == e.t = "object" /\ "isbn" \in DOMAIN e.v
\* the entries that carry an id carry different ids
DistinctIds(a) ==
    \A i, j \in 1..Len(a) :
        (i # j /\ HasId(a[i]) /\ HasId(a[j])) => a[i].v["isbn"] # a[j].v["isbn"]
\* the records of a set of references that carry the id of entry e
OfEntry(l, refs, e) ==
    IF HasId(e)
    THEN {r \in refs : l.objs[r].isbn = json_decode(e.v["isbn"])}
    ELSE {}
\* entry e is in all three structures, as the record it describes
InAll(l, e) ==
    /\ OfEntry(l, PrimaryRefs(l), e) # {}
    /\ OfEntry(l, IndexRefs(l.books_by_title), e) # {}
    /\ OfEntry(l, IndexRefs(l.books_by_author), e) # {}
    /\ \A r \in OfEntry(l, PrimaryRefs(l), e) :
          l.objs[r] = from_dict(json_decode(e))
\* entry e is in none of the three structures
InNone(l, e) ==
    /\ OfEntry(l, PrimaryRefs(l), e) = {}
    /\ OfEntry(l, IndexRefs(l.books_by_title), e) = {}
    /\ OfEntry(l, IndexRefs(l.books_by_author), e) = {}

\* C10: an aborted restore keeps the accumulated prefix. When a Library is
\* constructed over a file whose entries 1..k-1 are well-formed and whose entry
\* k is faulty (ids all different), nothing is raised, entries 1..k-1 are in the
\* primary mapping and both indexes, and entry k and every later entry are in
\* none of the three; over a file that is not JSON the store is empty.
C10_AbortedRestore ==
    /\ (last.op = "init" /\ file.kind = "json" /\ file.doc.t = "array") =>
          LET a == file.doc.v IN
          \A k \in 1..Len(a) :
              (/\ DistinctIds(a)
               /\ Faulty(a[k])
               /\ \A j \in 1..(k - 1) : WellFormed(a[j])) =>
                  /\ ~last.raised
                  /\ \A j \in 1..(k - 1) : InAll(lib, a[j])
                  /\ \A j \in k..Len(a) : InNone(lib, a[j])
    /\ (last.op = "init" /\ file.kind = "garbage") => lib = EmptyLibrary

-----------------------------------------------------------------------------
(* C11 *)

\* C11: persist does not touch the in-memory state. save_data, whether it
\* returns or raises, leaves the primary mapping, both indexes and every
\* record's id, title, author and holder as they were.
C11_PersistKeepsState ==
    [][last'.op = "save_data" =>
          /\ lib'.books_by_isbn = lib.books_by_isbn
          /\ lib'.books_by_title = lib.books_by_title
          /\ lib'.books_by_author = lib.books_by_author
          /\ lib'.objs = lib.objs]_vars

\* a persist that raised after truncating the file, every record held
C11_Witness ==
    /\ last.op = "save_data" /\ last.raised
    /\ file = Garbage
    /\ Ids(lib) = ISBNS
    /\ HeldIds(lib) = ISBNS

-----------------------------------------------------------------------------
(* C12 *)

\* a Library just constructed where no data file exists
FreshStarted == last.op = "init" /\ file = Absent

\* C12: fresh start. Constructing the Library when no data file exists raises
\* nothing and leaves the store empty: total_books 0, issued_count 0, no key in
\* either index; and add_book with any id then succeeds, whichever id the call
\* that follows is made with.
C12_FreshStart ==
    /\ [](FreshStarted =>
            /\ ~last.raised
            /\ total_books(lib) = 0
            /\ issued_count(lib) = 0
            /\ DOMAIN lib.books_by_title = {}
            /\ DOMAIN lib.books_by_author = {}
            /\ \A isbn \in ISBNS, b \in BOOKS :
                   add_book(lib, isbn, b[1], b[2]).ret)
    /\ [][(FreshStarted /\ last'.op = "add_book") =>
              /\ last'.ok
              /\ total_books(lib') = 1
              /\ Ids(lib') = passed']_vars

\* the first add_book after a fresh start, which succeeded
C12_Witness ==
    /\ file = Absent
    /\ last.op = "add_book" /\ last.ok
    /\ total_books(lib) = 1
    /\ passed = Ids(lib)

-----------------------------------------------------------------------------
(* C13 *)

\* how many records an index reaches: the lengths of its lists, summed
IndexCount(index) == Cardinality(Places(index))

\* C13: index consistency across restore. After load_data of any file content,
\* by the constructor or on a Library that already holds books, the title
\* index, the author index and the primary mapping reach the same set of
\* records, and each index reaches as many records as total_books counts.
C13_RestoreIndexConsistency ==
    /\ IndexRefs(lib.books_by_title) = PrimaryRefs(lib)
    /\ IndexRefs(lib.books_by_author) = PrimaryRefs(lib)
    /\ IndexCount(lib.books_by_title) = total_books(lib)
    /\ IndexCount(lib.books_by_author) = total_books(lib)

-----------------------------------------------------------------------------
(* C14 *)

\* a holder as it should be: None, or a string that is not empty
HolderWellFormed(h) == h = None \/ (h.t = "str" /\ h.v # << >>)

\* C14: holder well-formedness. In every reachable state, whatever user_id was
\* passed to issue_book, the empty string included, each book's issued_to is
\* None or a non-empty string: a book that is_issued has a non-empty holder,
\* and issued_count counts no book whose holder is the empty string.
C14_HolderWellFormed ==
    /\ \A i \in 1..Len(lib.objs) :
          /\ HolderWellFormed(lib.objs[i].issued_to)
          /\ is_issued(lib.objs[i]) =>
                (lib.objs[i].issued_to.t = "str" /\ lib.objs[i].issued_to.v # << >>)
    /\ issued_count(lib) =
          Cardinality({isbn \in Ids(lib) : /\ Holder(lib, isbn) # None
                                           /\ Holder(lib, isbn) # PyStr(sEmpty)})

-----------------------------------------------------------------------------
(* C15 *)

\* the keys of an index under which a record with this id is found
KeysOf(l, index, isbn) ==
    {k \in DOMAIN index : \E j \in 1..Len(index[k]) : l.objs[index[k][j]].isbn = isbn}

\* C15: records are permanent and their descriptive fields immutable. No call
\* of add_book, issue_book, return_book, a search, save_data or load_data on a
\* Library removes an id from books_by_isbn or changes the isbn, title or
\* author stored for it; the holder of a stored book changes only in a
\* successful issue_book or return_book for that id; total_books never
\* decreases and the index keys under which the book is found stay the same.
C15_RecordsPermanent ==
    [][/\ Ids(lib) \subseteq Ids(lib')
       /\ total_books(lib') >= total_books(lib)
       /\ \A isbn \in Ids(lib) :
             /\ RecordOf(lib', isbn).isbn = RecordOf(lib, isbn).isbn
             /\ RecordOf(lib', isbn).title = RecordOf(lib, isbn).title
             /\ RecordOf(lib', isbn).author = RecordOf(lib, isbn).author
             /\ KeysOf(lib', lib'.books_by_title, isbn) =
                    KeysOf(lib, lib.books_by_title, isbn)
             /\ KeysOf(lib', lib'.books_by_author, isbn) =
                    KeysOf(lib, lib.books_by_author, isbn)
             /\ Holder(lib', isbn) # Holder(lib, isbn) =>
                    /\ last'.op \in {"issue_book", "return_book"}
                    /\ last'.ok
                    /\ \/ \E user_id \in USERS : IssueBook(isbn, user_id)
                       \/ ReturnBook(isbn)]_vars

-----------------------------------------------------------------------------
(* C16 *)

\* every record of a search result has the holder of the record that the
\* primary mapping stores under its id
ShowsLiveHolder(l, refs) ==
    \A r \in Range(refs) :
        /\ l.objs[r].isbn \in Ids(l)
        /\ l.objs[r].issued_to = Holder(l, l.objs[r].isbn)

\* C16: search results reflect live holder state. In every reachable state,
\* a store populated by load_data included, every record that search_by_title
\* or search_by_author returns has the same holder as the record stored under
\* the same id in books_by_isbn.
C16_SearchShowsLiveHolder ==
    /\ \A title \in SEARCH_TITLES :
          ShowsLiveHolder(lib, search_by_title(lib, title).ret)
    /\ \A author \in SEARCH_AUTHORS :
          ShowsLiveHolder(lib, search_by_author(lib, author).ret)

-----------------------------------------------------------------------------
(* C17 *)

\* the entry that stands for a book: its id, title, author and holder, the
\* holder null when the book is not held
EntryOf(b) ==
    JObject([isbn |-> JString(b.isbn.v),
             title |-> JString(b.title.v),
             author |-> JString(b.author.v),
             issued_to |-> IF b.issued_to = None THEN JNull
                           ELSE JString(b.issued_to.v)])

\* the id an entry carries
IdOf(e) == PyStr(e.v["isbn"].v)

\* when an id was first inserted: Book objects are made one after the other,
\* so it is the position of the first Book made with this id
FirstMade(l, isbn) ==
    CHOOSE i \in 1..Len(l.objs) :
        /\ l.objs[i].isbn = isbn
        /\ \A j \in 1..(i - 1) : l.objs[j].isbn # isbn

\* the entries save_data would write for store l
Written(l) == save_data(l).file.doc.v

\* C17: persisted content and order. A successful save_data writes one entry
\* per book of books_by_isbn, in the order in which the ids were first
\* inserted (the order in which the Book objects were made), each entry with
\* the book's id, title, author and current holder, null when it is not held.
\* issue_book and return_book change only the issued_to member of what is
\* written, never the number or the order of the entries. save_data, a fresh
\* Library over the file, save_data again writes the same entries.
C17_PersistedContent ==
    /\ []((last.op = "save_data" /\ ~last.raised) =>
            /\ file.kind = "json"
            /\ file.doc.t = "array"
            /\ Len(file.doc.v) = total_books(lib)
            /\ {IdOf(file.doc.v[i]) : i \in 1..Len(file.doc.v)} = Ids(lib)
            /\ \A i \in 1..Len(file.doc.v) :
                  file.doc.v[i] = EntryOf(RecordOf(lib, IdOf(file.doc.v[i])))
            /\ \A i, j \in 1..Len(file.doc.v) :
                  i < j => FirstMade(lib, IdOf(file.doc.v[i]))
                               < FirstMade(lib, IdOf(file.doc.v[j])))
    /\ [][last'.op \in {"issue_book", "return_book"} =>
              LET old == Written(lib)
                  new == Written(lib')
              IN  /\ Len(new) = Len(old)
                  /\ \A i \in 1..Len(old) :
                        [new[i].v EXCEPT !["issued_to"] = JNull] =
                            [old[i].v EXCEPT !["issued_to"] = JNull]]_vars
    /\ [][(last.op = "init" /\ file.kind = "json" /\ last'.op = "save_data") =>
              file' = file]_vars

\* a file saved by a Library that was itself read from a saved file: two
\* entries, the first not held and the second held
C17_Witness ==
    /\ last.op = "save_data" /\ ~last.raised
    /\ passed = {}
    /\ Len(file.doc.v) = 2
    /\ file.doc.v[1].v["issued_to"] = JNull
    /\ file.doc.v[2].v["issued_to"] # JNull

====
